---------------------------- MODULE Spec2Model ----------------------------
(***************************************************************************)
(* Royalty ledger of the music licensing server: RecordPlay (POST /play),  *)
(* the process-payment batch (POST /process-payment) with its delayed      *)
(* completion callback, and the documents they read and write.             *)
(*                                                                         *)
(* Every awaited database call is one atomic step; the steps of different  *)
(* requests interleave freely, as they do on the Node event loop.  A       *)
(* bulkWrite or updateMany over several documents is taken as one step:    *)
(* each document is written atomically by the store, and the properties    *)
(* checked here are per document.                                          *)
(*                                                                         *)
(* The clock `now` counts units of 5000 ms, the delay of the completion    *)
(* timer.                                                                  *)
(***************************************************************************)
EXTENDS Integers, Sequences, FiniteSets, TLC

VARIABLES
    transactions,   \* the RoyaltyTransaction collection, in order of creation (_id = index)
    analytics,      \* Music.analytics of every work of the catalogue
    plays,          \* RecordPlay calls between their save and their counter update
    requests,       \* process-payment requests that found pending transactions
    now,            \* the clock read by new Date() / Date.now()
    response,       \* the last HTTP response sent
    users,          \* the User collection
    works,          \* the Music documents created by POST /upload (_id = index)
    limiter,        \* the closure of one limiter built by rateLimitByUser
    handled         \* history: the requests the limiter has handled, in order

vars == <<transactions, analytics, plays, requests, now, response, users, works, limiter, handled>>

-----------------------------------------------------------------------------
(* Bounds of the model *)

MaxTx == 2
MaxReq == 2
MaxTime == 1

(* src/server/routes/music.js:940, setTimeout(..., 5000), in clock units *)
CompletionDelay == 1

NoDate == -1
NoId == 0

(* src/server/models/RoyaltyTransaction.js:246, the day of 1000 * 60 * 60 * 24 *)
(* ms, in units of the clock                                                  *)
UnitsPerDay == 17280

(* src/server/models/RoyaltyTransaction.js:247, the payment term in days *)
PaymentTermDays == 30

(* how far around the end of the payment term the overdue check is called *)
OverdueSlack == 2

(* how many works are uploaded *)
MaxWorks == 2

(* how many requests a limiter handles, and until when *)
MaxHandled == 4
MaxLimiterTime == 3

(* src/unnamed/part_000:166, the defaults of rateLimitByUser: 100 requests *)
(* in a window of 15 * 60 * 1000 ms, in units of the clock                 *)
DefaultMaxRequests == 100
DefaultWindow == 180

-----------------------------------------------------------------------------
(* rateLimitByUser (src/unnamed/part_000) *)

(* what a limited request carries: the authenticated user, if any, and the ip *)
LimiterRequests == {[user |-> "b1", ip |-> "ip1"], [user |-> "none", ip |-> "ip1"]}

(* const userId = req.user?.id || req.ip *)
LimiterKey(req) == IF req.user # "none" THEN req.user ELSE req.ip

LimiterKeys == {LimiterKey(req) : req \in LimiterRequests}

(* const requests = new Map(), with the parameters of the closure: keys are *)
(* the keys the Map has, times[k] is the array stored for k                 *)
NewLimiter(maxRequests, windowMs) ==
    [maxRequests |-> maxRequests, windowMs |-> windowMs,
     keys |-> {}, times |-> [k \in LimiterKeys |-> <<>>]]

(* a filter that keeps the request made exactly windowMs ago *)
LiveRequestsInclusive(times, windowStart) ==
    SelectSeq(times, LAMBDA time : time >= windowStart)

(* requests.get(userId).filter(time => time > windowStart) *)
LiveRequests(times, windowStart) ==
    SelectSeq(times, LAMBDA time : time > windowStart)

-----------------------------------------------------------------------------
(* Users (src/unnamed/part_001) *)

(* the fields of a user that the routes read or write; "none" is a field  *)
(* the document does not have                                              *)
User(role, licenseStatus, businessType, lmkRegistrationNumber, lmkMemberNumber) ==
    [role |-> role, isVerified |-> TRUE, name |-> "n0", companyName |-> "none",
     licenseStatus |-> licenseStatus, businessType |-> businessType,
     lmkRegistrationNumber |-> lmkRegistrationNumber,
     lmkMemberNumber |-> lmkMemberNumber]

Users ==
    [b1  |-> User("business", "active",  "cafe",   "REG-1", "none"),
     b2  |-> User("business", "active",  "retail", "REG-2", "none"),
     b3  |-> User("business", "pending", "cafe",   "none",  "none"),
     a1  |-> User("artist",   "none",    "none",   "none",  "LMK-1"),
     a2  |-> User("artist",   "none",    "none",   "none",  "LMK-2"),
     adm |-> User("admin",    "none",    "none",   "none",  "none")]

UserIds == DOMAIN Users

(* userSchema.methods.hasValidLicense *)
hasValidLicense(u) ==
    IF u.role # "business" THEN FALSE ELSE u.licenseStatus = "active"

(* middleware requireBusinessLicense: "next" or the code of the 403 response *)
requireBusinessLicense(u) ==
    IF u.role # "business" THEN "BUSINESS_ACCOUNT_REQUIRED"
    ELSE IF ~hasValidLicense(u) THEN "INVALID_LICENSE"
    ELSE "next"

(* middleware requireArtistVerification: "next" or the code of the 403 response *)
requireArtistVerification(u) ==
    IF u.role # "artist" THEN "ARTIST_ACCOUNT_REQUIRED"
    ELSE IF ~u.isVerified THEN "ARTIST_VERIFICATION_REQUIRED"
    ELSE IF u.lmkMemberNumber = "none" THEN "LMK_MEMBER_REQUIRED"
    ELSE "next"

(* middleware requireRole(roles) *)
requireRole(roles, u) ==
    IF u.role \notin roles THEN "INSUFFICIENT_PERMISSIONS" ELSE "next"

-----------------------------------------------------------------------------
(* The catalogue of works (src/unnamed/part_000, musicSchema).  w1 and w2  *)
(* were approved, w3 is as uploaded (in review), w4 was rejected; w5 was    *)
(* approved with two publishers that each claim the whole publishing share. *)

Holder(share) == [sharePercentage |-> share]

Music ==
    [w1 |-> [artist |-> "a1", duration |-> 180, isActive |-> TRUE,
             status |-> "published", complianceStatus |-> "approved",
             allowedBusinessTypes |-> {},
             royaltyRate |-> [mechanical |-> 1000, performance |-> 2000, synchronization |-> 5000],
             publishers |-> <<Holder(50), Holder(50)>>,
             composers |-> <<>>, lyricists |-> <<>>],
     w2 |-> [artist |-> "a2", duration |-> 240, isActive |-> TRUE,
             status |-> "published", complianceStatus |-> "approved",
             allowedBusinessTypes |-> {"cafe"},
             royaltyRate |-> [mechanical |-> 1000, performance |-> 2000, synchronization |-> 5000],
             publishers |-> <<Holder(100), Holder(100)>>,
             composers |-> <<Holder(100)>>, lyricists |-> <<Holder(40)>>],
     w3 |-> [artist |-> "a1", duration |-> 200, isActive |-> TRUE,
             status |-> "review", complianceStatus |-> "pending",
             allowedBusinessTypes |-> {},
             royaltyRate |-> [mechanical |-> 1000, performance |-> 2000, synchronization |-> 5000],
             publishers |-> <<>>, composers |-> <<>>, lyricists |-> <<>>],
     w4 |-> [artist |-> "a2", duration |-> 200, isActive |-> TRUE,
             status |-> "archived", complianceStatus |-> "rejected",
             allowedBusinessTypes |-> {},
             royaltyRate |-> [mechanical |-> 1000, performance |-> 2000, synchronization |-> 5000],
             publishers |-> <<>>, composers |-> <<>>, lyricists |-> <<>>],
     w5 |-> [artist |-> "a1", duration |-> 200, isActive |-> TRUE,
             status |-> "published", complianceStatus |-> "approved",
             allowedBusinessTypes |-> {"retail"},
             royaltyRate |-> [mechanical |-> 1500, performance |-> 2500, synchronization |-> 5000],
             publishers |-> <<Holder(100), Holder(100)>>,
             composers |-> <<>>, lyricists |-> <<>>]]

MusicIds == DOMAIN Music

(* a musicId of the request body: a work, an unknown id, or none at all *)
MusicIdInputs == MusicIds \cup {"w0", "missing"}

(* isAvailableForBusiness without the check of the allowed business types *)
isAvailableForAnyBusiness(m, businessType) ==
    IF ~m.isActive \/ m.status # "published" THEN FALSE
    ELSE m.complianceStatus = "approved"

(* musicSchema.methods.isAvailableForBusiness *)
isAvailableForBusiness(m, businessType) ==
    IF ~m.isActive \/ m.status # "published" THEN FALSE
    ELSE IF m.complianceStatus # "approved" THEN FALSE
    ELSE m.allowedBusinessTypes = {} \/ businessType \in m.allowedBusinessTypes

(* a royalty that is the mechanical rate whatever the play type *)
calculateRoyaltyFlat(m, playType) == m.royaltyRate.mechanical

(* musicSchema.methods.calculateRoyalty *)
calculateRoyalty(m, playType) ==
    CASE playType = "commercial"  -> m.royaltyRate.synchronization
      [] playType = "performance" -> m.royaltyRate.performance
      [] OTHER                    -> m.royaltyRate.mechanical


-----------------------------------------------------------------------------
(* RecordPlay: POST /play *)

(* playInfo.playType enum of royaltyTransactionSchema *)
PlayTypeEnum == {"background", "foreground", "commercial", "promotional"}

(* playType of the request body; "unset" is a body without the field *)
PlayTypeInputs == {"unset", "commercial", "performance"}

(* duration of the request body; 0 is a body without the field *)
DurationInputs == {0, 30}

(* const { playType = 'background' } = req.body *)
DefaultPlayType(playType) == IF playType = "unset" THEN "background" ELSE playType

(* amount * (pct / 100) * (bucket / 100), in whole currency units *)
Share(amount, pct, bucket) == (amount * pct * bucket) \div 10000

(* an entry that pays the whole bucket to every rights holder *)
PayeeWholeBucket(amount, h, bucket) ==
    [amount |-> Share(amount, 100, bucket), percentage |-> h.sharePercentage]

(* one entry of a rights-holder list of the distribution *)
Payee(amount, h, bucket) ==
    [amount |-> Share(amount, h.sharePercentage, bucket), percentage |-> h.sharePercentage]

RECURSIVE TotalShare(_)
(* the sum of the share percentages of a rights-holder list *)
TotalShare(holders) ==
    IF holders = <<>> THEN 0
    ELSE Head(holders).sharePercentage + TotalShare(Tail(holders))

(* a distribution that scales the publishers' shares to sum to 100 *)
DistributionNormalized(m, amount) ==
    [artist      |-> [amount |-> Share(amount, 100, 70), percentage |-> 70],
     publishers  |-> [i \in DOMAIN m.publishers |->
                         [amount |-> Share(amount,
                                           (m.publishers[i].sharePercentage * 100)
                                               \div TotalShare(m.publishers), 15),
                          percentage |-> m.publishers[i].sharePercentage]],
     composers   |-> [i \in DOMAIN m.composers  |-> Payee(amount, m.composers[i], 10)],
     lyricists   |-> [i \in DOMAIN m.lyricists  |-> Payee(amount, m.lyricists[i], 5)],
     lmkFee      |-> [amount |-> Share(amount, 100, 5),  percentage |-> 5],
     platformFee |-> [amount |-> Share(amount, 100, 10), percentage |-> 10]]

(* the distribution object built by POST /play *)
Distribution(m, amount) ==
    [artist      |-> [amount |-> Share(amount, 100, 70), percentage |-> 70],
     publishers  |-> [i \in DOMAIN m.publishers |-> Payee(amount, m.publishers[i], 15)],
     composers   |-> [i \in DOMAIN m.composers  |-> Payee(amount, m.composers[i], 10)],
     lyricists   |-> [i \in DOMAIN m.lyricists  |-> Payee(amount, m.lyricists[i], 5)],
     lmkFee      |-> [amount |-> Share(amount, 100, 5),  percentage |-> 5],
     platformFee |-> [amount |-> Share(amount, 100, 10), percentage |-> 10]]

(* a new transaction whose constructor marks it as already reported *)
NewTransactionReported(musicId, userId, playType, duration, t) ==
    LET m == Music[musicId]
        baseRate == calculateRoyalty(m, playType)
    IN  [music            |-> musicId,
         business         |-> userId,
         artist           |-> m.artist,
         playType         |-> playType,
         playDate         |-> t,
         duration         |-> IF duration # 0 THEN duration ELSE m.duration,
         baseRate         |-> baseRate,
         calculatedAmount |-> baseRate,
         currency         |-> "IDR",
         distribution     |-> Distribution(m, baseRate),
         reportingStatus  |-> "reported",
         reportedToLMK    |-> NoDate,
         status           |-> "pending",
         paymentDate      |-> NoDate,
         paymentMethod    |-> "bank_transfer",
         transactionId    |-> <<>>,
         auditTrail       |-> <<>>]

(* new RoyaltyTransaction({...}) with the schema defaults applied *)
NewTransaction(musicId, userId, playType, duration, t) ==
    LET m == Music[musicId]
        baseRate == calculateRoyalty(m, playType)
        calculatedAmount == baseRate
    IN  [music            |-> musicId,
         business         |-> userId,
         artist           |-> m.artist,
         playType         |-> playType,
         playDate         |-> t,
         duration         |-> IF duration # 0 THEN duration ELSE m.duration,
         baseRate         |-> baseRate,
         calculatedAmount |-> calculatedAmount,
         currency         |-> "IDR",
         distribution     |-> Distribution(m, calculatedAmount),
         reportingStatus  |-> "pending",
         reportedToLMK    |-> NoDate,
         status           |-> "pending",
         paymentDate      |-> NoDate,
         paymentMethod    |-> "bank_transfer",
         transactionId    |-> <<>>,
         auditTrail       |-> <<>>]

RECURSIVE SumPayees(_)
(* payees.reduce((sum, p) => sum + (p.amount || 0), 0) *)
SumPayees(payees) ==
    IF payees = <<>> THEN 0
    ELSE Head(payees).amount + SumPayees(Tail(payees))

(* royaltyTransactionSchema.methods.calculateTotalRoyalty *)
calculateTotalRoyalty(tx) ==
    tx.distribution.artist.amount + SumPayees(tx.distribution.publishers)
        + SumPayees(tx.distribution.composers) + SumPayees(tx.distribution.lyricists)

(* an overdue check that counts the last day of the term as overdue *)
isPaymentOverdueInclusive(tx, t) ==
    IF tx.status = "completed" THEN FALSE
    ELSE t - tx.playDate >= PaymentTermDays * UnitsPerDay

(* royaltyTransactionSchema.methods.isPaymentOverdue with new Date() = t:   *)
(* daysSincePlay is the float quotient (t - playDate) / UnitsPerDay, so     *)
(* daysSincePlay > 30 is compared here without the division                 *)
isPaymentOverdue(tx, t) ==
    IF tx.status = "completed" THEN FALSE
    ELSE t - tx.playDate > PaymentTermDays * UnitsPerDay

(* royaltyTransactionSchema.statics.getPendingLMKReports: the ids found *)
getPendingLMKReports ==
    {id \in DOMAIN transactions :
        transactions[id].reportingStatus = "pending" /\ transactions[id].status = "completed"}

(* the write-once part of a transaction: identity, play info, royalty info *)
Identity(tx) ==
    [music |-> tx.music, business |-> tx.business, artist |-> tx.artist,
     playType |-> tx.playType, playDate |-> tx.playDate, duration |-> tx.duration,
     baseRate |-> tx.baseRate, calculatedAmount |-> tx.calculatedAmount,
     currency |-> tx.currency, distribution |-> tx.distribution]

(* a validation whose enum also lists the play type performance *)
ValidPlayTypeOrPerformance(playType) == playType \in PlayTypeEnum \cup {"performance"}

(* schema validation run by royaltyTransaction.save(): of the fields the    *)
(* handler sets, only playInfo.playType can hold a value the schema rejects *)
ValidPlayType(playType) == playType \in PlayTypeEnum

(* the body of a response that carries no result of a read *)
NoBody == [kind |-> "none"]

NoResponse ==
    [route |-> "none", status |-> 0, code |-> "none", id |-> NoId,
     calculatedAmount |-> 0, playType |-> "none", reportingStatus |-> "none",
     processedTransactions |-> 0, totalAmount |-> 0, body |-> NoBody]

ErrorResponse(route, status, code) ==
    [NoResponse EXCEPT !.route = route, !.status = status, !.code = code]

(* res.status(201).json({ transaction: {...} }) of POST /play; doc is the  *)
(* document held by the handler, not a fresh read of the store             *)
PlayResponse(id, doc) ==
    [NoResponse EXCEPT !.route = "play", !.status = 201, !.id = id,
                       !.calculatedAmount = doc.calculatedAmount,
                       !.playType = doc.playType,
                       !.reportingStatus = doc.reportingStatus]

(* an outcome that refuses a work whose publishers claim more than 100 *)
PlayOutcomeConserving(userId, musicId, playType) ==
    LET u == users[userId] IN
    IF requireBusinessLicense(u) # "next" THEN requireBusinessLicense(u)
    ELSE IF musicId = "missing" THEN "MISSING_MUSIC_ID"
    ELSE IF musicId \notin MusicIds THEN "MUSIC_NOT_FOUND"
    ELSE IF ~isAvailableForBusiness(Music[musicId], u.businessType) THEN "MUSIC_NOT_AVAILABLE"
    ELSE IF ~ValidPlayType(playType) THEN "PLAY_RECORD_ERROR"
    ELSE IF TotalShare(Music[musicId].publishers) > 100 THEN "PLAY_RECORD_ERROR"
    ELSE "save"

(* the outcome of POST /play up to and including save(): "save", or the    *)
(* code of the error response                                              *)
PlayOutcome(userId, musicId, playType) ==
    LET u == users[userId] IN
    IF requireBusinessLicense(u) # "next" THEN requireBusinessLicense(u)
    ELSE IF musicId = "missing" THEN "MISSING_MUSIC_ID"
    ELSE IF musicId \notin MusicIds THEN "MUSIC_NOT_FOUND"
    ELSE IF ~isAvailableForBusiness(Music[musicId], u.businessType) THEN "MUSIC_NOT_AVAILABLE"
    ELSE IF ~ValidPlayType(playType) THEN "PLAY_RECORD_ERROR"
    ELSE "save"

PlayErrorStatus(code) ==
    CASE code = "MISSING_MUSIC_ID"    -> 400
      [] code = "MUSIC_NOT_FOUND"     -> 404
      [] code = "PLAY_RECORD_ERROR"   -> 500
      [] OTHER                        -> 403

(* POST /play up to save(): the checks, then the new document is stored *)
PlaySave(userId, musicId, playTypeInput, duration) ==
    LET playType == DefaultPlayType(playTypeInput)
        outcome == PlayOutcome(userId, musicId, playType)
    IN  /\ Len(transactions) < MaxTx
        /\ outcome = "save"
        /\ transactions' = Append(transactions,
                                  NewTransaction(musicId, userId, playType, duration, now))
        /\ plays' = plays \cup {Len(transactions) + 1}
        /\ UNCHANGED <<analytics, requests, now, response, users, works, limiter, handled>>

(* an error answer that also counts the play of the work it names *)
PlayRejectCounting(userId, musicId, playTypeInput) ==
    LET playType == DefaultPlayType(playTypeInput)
        outcome == PlayOutcome(userId, musicId, playType)
    IN  /\ outcome # "save"
        /\ response' = ErrorResponse("play", PlayErrorStatus(outcome), outcome)
        /\ analytics' = IF musicId \in MusicIds
                        THEN [analytics EXCEPT ![musicId].totalPlays = @ + 1,
                                               ![musicId].businessPlays = @ + 1]
                        ELSE analytics
        /\ UNCHANGED <<transactions, plays, requests, now, users, works, limiter, handled>>

(* POST /play answered with an error before anything is stored *)
PlayReject(userId, musicId, playTypeInput) ==
    LET playType == DefaultPlayType(playTypeInput)
        outcome == PlayOutcome(userId, musicId, playType)
    IN  /\ outcome # "save"
        /\ response' = ErrorResponse("play", PlayErrorStatus(outcome), outcome)
        /\ UNCHANGED <<transactions, analytics, plays, requests, now, users, works, limiter, handled>>

(* POST /play after save(): Music.findByIdAndUpdate($inc, $set), then 201 *)
PlayUpdateAnalytics(id) ==
    /\ id \in plays
    /\ LET tx == transactions[id]
           doc == NewTransaction(tx.music, tx.business, tx.playType, tx.duration, tx.playDate)
       IN  /\ analytics' = [analytics EXCEPT ![tx.music] =
                               [totalPlays    |-> @.totalPlays + 1,
                                businessPlays |-> @.businessPlays + 1,
                                lastPlayed    |-> now]]
           /\ response' = PlayResponse(id, doc)
    /\ plays' = plays \ {id}
    /\ UNCHANGED <<transactions, requests, now, users, works, limiter, handled>>

(* POST /play after save() when Music.findByIdAndUpdate rejects: the catch  *)
(* block answers 500; nothing undoes the save                              *)
PlayUpdateFails(id) ==
    /\ id \in plays
    /\ response' = ErrorResponse("play", 500, "PLAY_RECORD_ERROR")
    /\ plays' = plays \ {id}
    /\ UNCHANGED <<transactions, analytics, requests, now, users, works, limiter, handled>>

-----------------------------------------------------------------------------
(* Process payment: POST /process-payment *)

(* paymentMethod of the request body ("unset": a body without the field);  *)
(* the requests of the model name a method other than the default         *)
MethodInputs == {"digital_wallet"}

(* const { paymentMethod = 'bank_transfer' } = req.body *)
DefaultMethod(method) == IF method = "unset" THEN "bank_transfer" ELSE method

TxIds == DOMAIN transactions

(* RoyaltyTransaction.find({_id: {$in: transactionIds}, 'paymentInfo.status': 'pending'}) *)
FindPending(ids) == {id \in ids \cap TxIds : transactions[id].status = "pending"}

RECURSIVE SumAmounts(_)
(* totalAmount += transaction.royaltyInfo.calculatedAmount, over the found documents *)
SumAmounts(ids) ==
    IF ids = {} THEN 0
    ELSE LET id == CHOOSE i \in ids : TRUE
         IN  transactions[id].calculatedAmount + SumAmounts(ids \ {id})

(* The value stored by {'verification.auditTrail': {$push: {...}}} in an    *)
(* update without operators: the update is a $set of the whole path, the   *)
(* object is cast to a one-element document array, the unknown key $push   *)
(* is dropped by the strict schema and the timestamp default is applied.   *)
CastAuditTrail(t) ==
    <<[action |-> "none", performedBy |-> "none", timestamp |-> t, details |-> "none"]>>

(* an initiation update that writes playInfo.playDate for paymentInfo.paymentDate *)
InitiationUpdatePlayDate(tx, id, method, t) ==
    [tx EXCEPT !.status        = "processing",
               !.playDate      = t,
               !.paymentMethod = method,
               !.transactionId = <<t, id>>,
               !.auditTrail    = CastAuditTrail(t)]

(* the update object of one updateOne of the bulkWrite *)
InitiationUpdate(tx, id, method, t) ==
    [tx EXCEPT !.status        = "processing",
               !.paymentDate   = t,
               !.paymentMethod = method,
               !.transactionId = <<t, id>>,
               !.auditTrail    = CastAuditTrail(t)]

(* filter of the updateOne pushed for a found document: { _id: transaction._id } *)
InitiationFilter(req, id) == id \in req.found

(* a completion that marks the transaction reported without the date *)
CompletionUpdateUndated(tx, admin, t) ==
    [tx EXCEPT !.status          = "completed",
               !.reportingStatus = "reported",
               !.auditTrail      = Append(@, [action      |-> "payment_completed",
                                              performedBy |-> admin,
                                              timestamp   |-> t,
                                              details     |-> "Payment completed and reported to LMK"])]

(* a completion that settles the payment and leaves the report pending *)
CompletionUpdateUnreported(tx, admin, t) ==
    [tx EXCEPT !.status     = "completed",
               !.auditTrail = Append(@, [action      |-> "payment_completed",
                                         performedBy |-> admin,
                                         timestamp   |-> t,
                                         details     |-> "Payment completed and reported to LMK"])]

(* the $set and $push of the updateMany of the completion callback *)
CompletionUpdate(tx, admin, t) ==
    [tx EXCEPT !.status          = "completed",
               !.reportingStatus = "reported",
               !.reportedToLMK   = t,
               !.auditTrail      = Append(@, [action      |-> "payment_completed",
                                              performedBy |-> admin,
                                              timestamp   |-> t,
                                              details     |-> "Payment completed and reported to LMK"])]

(* filter of the updateMany of the completion callback: { _id: { $in: transactionIds } } *)
CompletionFilter(req, id) == id \in req.ids

PaymentResponse(req) ==
    [NoResponse EXCEPT !.route = "process-payment", !.status = 200,
                       !.processedTransactions = Cardinality(req.found),
                       !.totalAmount = req.totalAmount]

(* POST /process-payment answered before any request state exists: role    *)
(* check, body check, and the find that matches no pending transaction     *)
PaymentReject(userId, hasIds, ids) ==
    LET code == IF requireRole({"admin"}, users[userId]) # "next" THEN "INSUFFICIENT_PERMISSIONS"
                ELSE IF ~hasIds THEN "MISSING_TRANSACTION_IDS"
                ELSE IF FindPending(ids) = {} THEN "NO_PENDING_TRANSACTIONS"
                ELSE "next"
    IN  /\ code # "next"
        /\ response' = ErrorResponse("process-payment",
                                     CASE code = "INSUFFICIENT_PERMISSIONS" -> 403
                                       [] code = "MISSING_TRANSACTION_IDS"  -> 400
                                       [] OTHER                             -> 404,
                                     code)
        /\ UNCHANGED <<transactions, analytics, plays, requests, now, users, works, limiter, handled>>

(* POST /process-payment up to the find: the pending documents are read *)
PaymentFind(userId, ids, methodInput) ==
    /\ requireRole({"admin"}, users[userId]) = "next"
    /\ FindPending(ids) # {}
    /\ Len(requests) < MaxReq
    /\ requests' = Append(requests,
                          [admin       |-> userId,
                           ids         |-> ids,
                           method      |-> DefaultMethod(methodInput),
                           found       |-> FindPending(ids),
                           totalAmount |-> SumAmounts(FindPending(ids)),
                           pc          |-> "found",
                           deadline    |-> NoDate])
    /\ UNCHANGED <<transactions, analytics, plays, now, response, users, works, limiter, handled>>

(* POST /process-payment from the bulkWrite on: the updates are applied,   *)
(* the completion timer is set and the batch result is sent                *)
PaymentBulkWrite(r) ==
    /\ r \in DOMAIN requests
    /\ requests[r].pc = "found"
    /\ transactions' = [id \in TxIds |->
                          IF InitiationFilter(requests[r], id)
                          THEN InitiationUpdate(transactions[id], id, requests[r].method, now)
                          ELSE transactions[id]]
    /\ requests' = [requests EXCEPT ![r].pc = "timer", ![r].deadline = now + CompletionDelay]
    /\ response' = PaymentResponse(requests[r])
    /\ UNCHANGED <<analytics, plays, now, users, works, limiter, handled>>

(* s without its element at position r *)
Remove(s, r) == [i \in 1..(Len(s) - 1) |-> IF i < r THEN s[i] ELSE s[i + 1]]

(* a callback that deletes the newest transaction once it is settled *)
PaymentCompletePurging(r) ==
    /\ r \in DOMAIN requests
    /\ requests[r].pc = "timer"
    /\ now >= requests[r].deadline
    /\ transactions' = SubSeq(transactions, 1, Len(transactions) - 1)
    /\ requests' = Remove(requests, r)
    /\ UNCHANGED <<analytics, plays, now, response, users, works, limiter, handled>>

(* the setTimeout callback of a request: updateMany over the requested ids. *)
(* It is the last step of the request, which is then forgotten.            *)
PaymentComplete(r) ==
    /\ r \in DOMAIN requests
    /\ requests[r].pc = "timer"
    /\ now >= requests[r].deadline
    /\ transactions' = [id \in TxIds |->
                          IF CompletionFilter(requests[r], id)
                          THEN CompletionUpdate(transactions[id], requests[r].admin, now)
                          ELSE transactions[id]]
    /\ requests' = Remove(requests, r)
    /\ UNCHANGED <<analytics, plays, now, response, users, works, limiter, handled>>

(* time passes *)
Tick ==
    /\ now < MaxTime
    /\ now' = now + 1
    /\ UNCHANGED <<transactions, analytics, plays, requests, response, users, works, limiter, handled>>

-----------------------------------------------------------------------------

Init ==
    /\ transactions = <<>>
    /\ analytics = [m \in MusicIds |-> [totalPlays |-> 0, businessPlays |-> 0, lastPlayed |-> NoDate]]
    /\ plays = {}
    /\ requests = <<>>
    /\ now = 0
    /\ response = NoResponse
    /\ users = Users
    /\ works = <<>>
    /\ limiter = NewLimiter(DefaultMaxRequests, DefaultWindow)
    /\ handled = <<>>

(* The requests the environment sends.  The ledger specification Spec     *)
(* takes RecordPlay with a few inputs and the payment batch in full; the   *)
(* play specification SpecPlay takes RecordPlay with every kind of caller  *)
(* and musicId, the calls falling within one unit of the clock; the        *)
(* calculator specification SpecCalc takes the licensed callers and the    *)
(* available works, among them the over-allocated w5.                      *)
LedgerCallers == {"b1", "b3"}
LedgerMusicIds == {"w1", "w2"}
LedgerPlayTypes == {"unset"}
LedgerDurations == {0}
PaymentCallers == {"adm", "b1"}
PlayCallers == {"b1", "b2", "b3", "a1"}
PlayMusicIds == MusicIdInputs \ {"w5"}
CalcCallers == {"b1", "b2"}
CalcMusicIds == {"w1", "w2", "w5"}

RecordPlay(callers, musicIds, playTypes, durations) ==
    \E userId \in callers, musicId \in musicIds, playType \in playTypes :
        \/ \E duration \in durations : PlaySave(userId, musicId, playType, duration)
        \/ PlayReject(userId, musicId, playType)

UpdateAnalytics == \E id \in TxIds : PlayUpdateAnalytics(id)

ProcessPayment ==
    \E userId \in PaymentCallers, ids \in SUBSET TxIds :
        \/ \E method \in MethodInputs : PaymentFind(userId, ids, method)
        \/ \E hasIds \in BOOLEAN : PaymentReject(userId, hasIds, ids)

BulkWrite == \E r \in DOMAIN requests : PaymentBulkWrite(r)

Complete == \E r \in DOMAIN requests : PaymentComplete(r)

Next ==
    \/ RecordPlay(LedgerCallers, LedgerMusicIds, LedgerPlayTypes, LedgerDurations)
    \/ UpdateAnalytics
    \/ ProcessPayment
    \/ BulkWrite
    \/ Complete
    \/ Tick

Spec == Init /\ [][Next]_vars

NextPlay ==
    \/ RecordPlay(PlayCallers, PlayMusicIds, PlayTypeInputs, DurationInputs)
    \/ UpdateAnalytics

SpecPlay == Init /\ [][NextPlay]_vars

NextCalc ==
    \/ RecordPlay(CalcCallers, CalcMusicIds, PlayTypeInputs, DurationInputs)
    \/ UpdateAnalytics

SpecCalc == Init /\ [][NextCalc]_vars

(* The overdue check on a stored transaction of any payment status, called *)
(* around the end of its payment term.                                     *)

(* paymentInfo.status enum of royaltyTransactionSchema *)
PaymentStatusEnum == {"pending", "processing", "completed", "failed", "disputed", "refunded"}

(* 30 days of 24 hours in units of the clock: the age at which the payment *)
(* term of a play ends                                                     *)
TermEnd == 518400

PlayDateInputs == {0, 1}

(* a transaction played at playDate whose payment has reached status *)
StoredWithStatus(status, playDate) ==
    LET new == NewTransaction("w1", "b1", "background", 0, playDate)
        initiated == InitiationUpdate(new, 1, "bank_transfer", playDate)
    IN  CASE status = "pending"    -> new
          [] status = "processing" -> initiated
          [] status = "completed"  -> CompletionUpdate(initiated, "adm", playDate + CompletionDelay)
          [] OTHER                 -> [initiated EXCEPT !.status = status]

InitOverdue ==
    /\ \E status \in PaymentStatusEnum, playDate \in PlayDateInputs :
           transactions = <<StoredWithStatus(status, playDate)>>
    /\ analytics = [m \in MusicIds |-> [totalPlays |-> 0, businessPlays |-> 0, lastPlayed |-> NoDate]]
    /\ plays = {}
    /\ requests = <<>>
    /\ now \in (TermEnd - OverdueSlack)..TermEnd
    /\ response = NoResponse
    /\ users = Users
    /\ works = <<>>
    /\ limiter = NewLimiter(DefaultMaxRequests, DefaultWindow)
    /\ handled = <<>>

(* transaction.isPaymentOverdue() is called; response holds what it returned *)
CheckOverdue ==
    \E id \in TxIds :
        /\ response' = [NoResponse EXCEPT
                            !.route = "isPaymentOverdue", !.id = id,
                            !.code = IF isPaymentOverdue(transactions[id], now)
                                     THEN "overdue" ELSE "not_overdue"]
        /\ UNCHANGED <<transactions, analytics, plays, requests, now, users, works, limiter, handled>>

(* time passes around the end of the payment term *)
TickOverdue ==
    /\ now < TermEnd + OverdueSlack + 1
    /\ now' = now + 1
    /\ response' = NoResponse
    /\ UNCHANGED <<transactions, analytics, plays, requests, users, works, limiter, handled>>

NextOverdue == CheckOverdue \/ TickOverdue

SpecOverdue == InitOverdue /\ [][NextOverdue]_vars

(* The ledger with the fairness the Node event loop gives: a handler that  *)
(* has read goes on to write, time passes, and a callback that is due is   *)
(* run.  No call to the store fails.  Requests arrive up to MaxTime; the   *)
(* clock then runs on, once the handlers have written, until the timers    *)
(* that wait are due.                                                      *)
TickUntilDue ==
    /\ \/ now < MaxTime
       \/ /\ \E r \in DOMAIN requests : requests[r].pc = "timer" /\ now < requests[r].deadline
          /\ \A r \in DOMAIN requests : requests[r].pc # "found"
    /\ now' = now + 1
    /\ UNCHANGED <<transactions, analytics, plays, requests, response, users, works, limiter, handled>>

NextFair ==
    \/ RecordPlay(LedgerCallers, LedgerMusicIds, LedgerPlayTypes, LedgerDurations)
    \/ UpdateAnalytics
    \/ (now <= MaxTime /\ ProcessPayment)
    \/ BulkWrite
    \/ Complete
    \/ TickUntilDue

SpecFair ==
    /\ Init
    /\ [][NextFair]_vars
    /\ WF_vars(TickUntilDue)
    /\ \A r \in 1..MaxReq : WF_vars(PaymentBulkWrite(r))
    /\ \A r \in 1..MaxReq : WF_vars(PaymentComplete(r))

-----------------------------------------------------------------------------
(* The read routes and the aggregations of the model, over a store that    *)
(* does not change while they are called.                                  *)

(* the documents of ids that pass a $match, as the set of their ids *)
Matching(P(_)) == {id \in TxIds : P(transactions[id])}

(* the date filter of a query: a bound that is not given is not applied *)
InWindow(tx, startDate, endDate) ==
    /\ startDate = NoDate \/ tx.playDate >= startDate
    /\ endDate = NoDate \/ tx.playDate <= endDate

(* a filter on one field that is applied only when the query names a value *)
FieldIs(value, wanted) == wanted = "unset" \/ value = wanted

(* the value of an accumulator field of a document *)
FieldOf(tx, field) ==
    CASE field = "calculatedAmount" -> tx.calculatedAmount
      [] field = "artistAmount"     -> tx.distribution.artist.amount
      [] field = "lmkFee"           -> tx.distribution.lmkFee.amount

RECURSIVE SumField(_, _)
(* { $sum: '$field' } over the documents of ids *)
SumField(ids, field) ==
    IF ids = {} THEN 0
    ELSE LET id == CHOOSE i \in ids : TRUE
         IN  FieldOf(transactions[id], field) + SumField(ids \ {id}, field)

(* { $avg: '$field' }: the quotient sum / count, kept as a fraction *)
AvgField(ids, field) == [num |-> SumField(ids, field), den |-> Cardinality(ids)]

(* the $match stage of getRoyaltySummary *)
SummaryMatch(startDate, endDate, filters) ==
    Matching(LAMBDA tx : /\ tx.playDate >= startDate /\ tx.playDate <= endDate
                         /\ \A k \in DOMAIN filters : tx[k] = filters[k])

(* a summary that leaves out the plays of the last instant of the window *)
getRoyaltySummaryOpenEnd(startDate, endDate, filters) ==
    LET ids == Matching(LAMBDA tx : /\ tx.playDate >= startDate /\ tx.playDate < endDate
                                    /\ \A k \in DOMAIN filters : tx[k] = filters[k])
    IN  IF ids = {} THEN <<>>
        ELSE <<[totalTransactions     |-> Cardinality(ids),
                totalRoyalties        |-> SumField(ids, "calculatedAmount"),
                totalPlays            |-> Cardinality(ids),
                averageRoyaltyPerPlay |-> AvgField(ids, "calculatedAmount"),
                uniqueBusinessCount   |-> Cardinality({transactions[id].business : id \in ids}),
                uniqueArtistCount     |-> Cardinality({transactions[id].artist : id \in ids}),
                uniqueSongCount       |-> Cardinality({transactions[id].music : id \in ids})]>>

(* royaltyTransactionSchema.statics.getRoyaltySummary: the array the        *)
(* aggregation returns, empty when nothing matches                          *)
getRoyaltySummary(startDate, endDate, filters) ==
    LET ids == SummaryMatch(startDate, endDate, filters)
    IN  IF ids = {} THEN <<>>
        ELSE <<[totalTransactions     |-> Cardinality(ids),
                totalRoyalties        |-> SumField(ids, "calculatedAmount"),
                totalPlays            |-> Cardinality(ids),
                averageRoyaltyPerPlay |-> AvgField(ids, "calculatedAmount"),
                uniqueBusinessCount   |-> Cardinality({transactions[id].business : id \in ids}),
                uniqueArtistCount     |-> Cardinality({transactions[id].artist : id \in ids}),
                uniqueSongCount       |-> Cardinality({transactions[id].music : id \in ids})]>>

(* summary[0] || { totalTransactions: 0, ... } of GET /summary *)
NoSummary ==
    [totalTransactions |-> 0, totalRoyalties |-> 0, totalPlays |-> 0,
     averageRoyaltyPerPlay |-> [num |-> 0, den |-> 1]]

(* the default window of GET /summary and GET /lmk-report: the last 30 days *)
DefaultStart(startDate) == IF startDate = NoDate THEN now - PaymentTermDays * UnitsPerDay ELSE startDate

DefaultEnd(endDate) == IF endDate = NoDate THEN now ELSE endDate

ReadResponse(route, body) ==
    [NoResponse EXCEPT !.route = route, !.status = 200, !.body = body]

(* GET /transactions: the documents found, page 1 of the default page size *)
GetTransactions(userId, startDate, endDate, paymentStatus, musicId) ==
    LET u == users[userId]
        ids == Matching(LAMBDA tx : /\ tx.business = userId
                                    /\ InWindow(tx, startDate, endDate)
                                    /\ FieldIs(tx.status, paymentStatus)
                                    /\ FieldIs(tx.music, musicId))
    IN  /\ response' =
              IF requireBusinessLicense(u) # "next"
              THEN ErrorResponse("transactions", 403, requireBusinessLicense(u))
              ELSE ReadResponse("transactions",
                                [kind |-> "transactions", caller |-> userId,
                                 transactions |-> ids, totalItems |-> Cardinality(ids)])
        /\ UNCHANGED <<transactions, analytics, plays, requests, now, users, works, limiter, handled>>

(* the $match of the overduePayments aggregation of GET /summary *)
SummaryOverdue(userId) ==
    Matching(LAMBDA tx : /\ tx.business = userId
                         /\ tx.status = "pending"
                         /\ tx.playDate < now - PaymentTermDays * UnitsPerDay)

(* GET /summary *)
GetSummary(userId, startDateInput, endDateInput) ==
    LET u == users[userId]
        startDate == DefaultStart(startDateInput)
        endDate == DefaultEnd(endDateInput)
        summary == getRoyaltySummary(startDate, endDate, [business |-> userId])
        pending == Matching(LAMBDA tx : tx.business = userId /\ tx.status = "pending")
        overdue == SummaryOverdue(userId)
    IN  /\ response' =
              IF requireBusinessLicense(u) # "next"
              THEN ErrorResponse("summary", 403, requireBusinessLicense(u))
              ELSE ReadResponse("summary",
                                [kind |-> "summary", caller |-> userId,
                                 startDate |-> startDate, endDate |-> endDate,
                                 matched |-> SummaryMatch(startDate, endDate, [business |-> userId]),
                                 summary |-> IF summary = <<>> THEN NoSummary ELSE summary[1],
                                 pendingMatched |-> pending,
                                 pendingPayments |->
                                     [totalPending |-> SumField(pending, "calculatedAmount"),
                                      count |-> Cardinality(pending)],
                                 overdueMatched |-> overdue,
                                 overduePayments |->
                                     [totalOverdue |-> SumField(overdue, "calculatedAmount"),
                                      count |-> Cardinality(overdue)]])
        /\ UNCHANGED <<transactions, analytics, plays, requests, now, users, works, limiter, handled>>

(* the query of the find of GET /earnings *)
EarningsQuery(userId, startDate, endDate, paymentStatus) ==
    Matching(LAMBDA tx : /\ tx.artist = userId
                         /\ InWindow(tx, startDate, endDate)
                         /\ tx.status = paymentStatus)

(* a total that follows the paymentStatus of the query *)
TotalEarningsOfQuery(userId, paymentStatus) ==
    Matching(LAMBDA tx : tx.artist = userId /\ tx.status = paymentStatus)

(* the $match of the totalEarnings aggregation of GET /earnings *)
TotalEarnings(userId, paymentStatus) ==
    Matching(LAMBDA tx : tx.artist = userId /\ tx.status = "completed")

(* const { paymentStatus = 'completed' } = req.query *)
DefaultPaymentStatus(paymentStatus) ==
    IF paymentStatus = "unset" THEN "completed" ELSE paymentStatus

(* GET /earnings *)
GetEarnings(userId, startDate, endDate, paymentStatusInput) ==
    LET u == users[userId]
        paymentStatus == DefaultPaymentStatus(paymentStatusInput)
        ids == EarningsQuery(userId, startDate, endDate, paymentStatus)
        earned == TotalEarnings(userId, paymentStatus)
    IN  /\ response' =
              IF requireArtistVerification(u) # "next"
              THEN ErrorResponse("earnings", 403, requireArtistVerification(u))
              ELSE ReadResponse("earnings",
                                [kind |-> "earnings", caller |-> userId,
                                 transactions |-> ids, totalItems |-> Cardinality(ids),
                                 earningsMatched |-> earned,
                                 totalEarnings |-> SumField(earned, "artistAmount")])
        /\ UNCHANGED <<transactions, analytics, plays, requests, now, users, works, limiter, handled>>

(* a matchQuery that scopes an artist's report only when no reportingStatus is asked for *)
LmkMatchQueryUnscoped(userId, startDate, endDate, reportingStatus) ==
    Matching(LAMBDA tx : /\ tx.playDate >= startDate /\ tx.playDate <= endDate
                         /\ (users[userId].role = "artist" /\ reportingStatus = "unset")
                                => tx.artist = userId
                         /\ FieldIs(tx.reportingStatus, reportingStatus))

(* matchQuery of GET /lmk-report *)
LmkMatchQuery(userId, startDate, endDate, reportingStatus) ==
    Matching(LAMBDA tx : /\ tx.playDate >= startDate /\ tx.playDate <= endDate
                         /\ users[userId].role = "artist" => tx.artist = userId
                         /\ FieldIs(tx.reportingStatus, reportingStatus))

(* lmkCompliance.reportingStatus enum, in the order of { $sort: { _id: 1 } } *)
ReportingStatusOrder == <<"confirmed", "disputed", "pending", "reported">>

(* one group of the report: { _id: '$lmkCompliance.reportingStatus', ... } *)
LmkGroup(ids, status) ==
    LET group == {id \in ids : transactions[id].reportingStatus = status}
    IN  [id |-> status, ids |-> group, count |-> Cardinality(group),
         totalRoyalties |-> SumField(group, "calculatedAmount"),
         totalLMKFees |-> SumField(group, "lmkFee")]

(* a report that groups every matched document under the status pending *)
LmkReportOneGroup(ids) ==
    IF ids = {} THEN <<>>
    ELSE <<[id |-> "pending", ids |-> ids, count |-> Cardinality(ids),
            totalRoyalties |-> SumField(ids, "calculatedAmount"),
            totalLMKFees |-> SumField(ids, "lmkFee")]>>

(* the report aggregation: the groups of the matched documents, sorted *)
LmkReport(ids) ==
    LET present == SelectSeq(ReportingStatusOrder,
                             LAMBDA status : \E id \in ids : transactions[id].reportingStatus = status)
    IN  [i \in DOMAIN present |-> LmkGroup(ids, present[i])]

(* the summary aggregation: summary[0] || {} *)
LmkSummary(ids) ==
    IF ids = {} THEN [totalTransactions |-> 0, totalRoyalties |-> 0, totalLMKFees |-> 0, empty |-> TRUE]
    ELSE [totalTransactions |-> Cardinality(ids),
          totalRoyalties    |-> SumField(ids, "calculatedAmount"),
          totalLMKFees      |-> SumField(ids, "lmkFee"),
          empty             |-> FALSE]

(* GET /lmk-report, both aggregations reading the same store *)
GetLmkReport(userId, startDateInput, endDateInput, reportingStatus) ==
    LET u == users[userId]
        ids == LmkMatchQuery(userId, DefaultStart(startDateInput), DefaultEnd(endDateInput),
                             reportingStatus)
    IN  /\ response' =
              IF requireRole({"admin", "artist"}, u) # "next"
              THEN ErrorResponse("lmk-report", 403, requireRole({"admin", "artist"}, u))
              ELSE ReadResponse("lmk-report",
                                [kind |-> "lmk-report", caller |-> userId,
                                 reportingStatus |-> reportingStatus,
                                 matched |-> ids,
                                 report |-> LmkReport(ids),
                                 summary |-> LmkSummary(ids)])
        /\ UNCHANGED <<transactions, analytics, plays, requests, now, users, works, limiter, handled>>

(* The stores the read routes are called on: up to MaxStored plays, in the *)
(* order they were recorded, each pending, processing or completed; the    *)
(* clock stands 30 days and two units after the first play.                *)
MaxStored == 2

ReadNow == TermEnd + 2

ReadPlayDates == {0, 2}

ReadPlays == {<<"b1", "w1", "commercial">>, <<"b1", "w2", "background">>,
              <<"b2", "w1", "background">>}

ReadStatuses == {"pending", "processing", "completed"}

(* a play recorded at playDate whose payment has reached status: a payment *)
(* that is processing was initiated at the instant of the read, a payment  *)
(* that is completed was initiated when the play was recorded              *)
StoredPlay(play, status, playDate) ==
    LET new == NewTransaction(play[2], play[1], play[3], 0, playDate)
    IN  CASE status = "pending"    -> new
          [] status = "processing" -> InitiationUpdate(new, 1, "bank_transfer", ReadNow)
          [] OTHER                 -> CompletionUpdate(InitiationUpdate(new, 1, "bank_transfer", playDate),
                                                       "adm", playDate + CompletionDelay)

StoredPlays ==
    {StoredPlay(play, status, playDate) :
        play \in ReadPlays, status \in ReadStatuses, playDate \in ReadPlayDates}

InitRead ==
    /\ \E n \in 0..MaxStored :
           /\ transactions \in [1..n -> StoredPlays]
           /\ \A i \in 1..n, j \in 1..n :
                  i < j => transactions[i].playDate <= transactions[j].playDate
    /\ analytics = [m \in MusicIds |-> [totalPlays |-> 0, businessPlays |-> 0, lastPlayed |-> NoDate]]
    /\ plays = {}
    /\ requests = <<>>
    /\ now = ReadNow
    /\ response = NoResponse
    /\ users = Users
    /\ works = <<>>
    /\ limiter = NewLimiter(DefaultMaxRequests, DefaultWindow)
    /\ handled = <<>>

ReadCallers == {"b1", "b2", "a1", "a2", "adm"}
WindowInputs == {<<NoDate, NoDate>>, <<0, 0>>}
PaymentStatusInputs == {"unset", "pending"}
MusicFilterInputs == {"unset", "w1"}
ReportingStatusInputs == {"unset", "reported"}

Transactions ==
    \E userId \in ReadCallers, window \in WindowInputs,
       paymentStatus \in PaymentStatusInputs, musicId \in MusicFilterInputs :
        GetTransactions(userId, window[1], window[2], paymentStatus, musicId)

Summary ==
    \E userId \in ReadCallers, window \in WindowInputs :
        GetSummary(userId, window[1], window[2])

Earnings ==
    \E userId \in ReadCallers, window \in WindowInputs, paymentStatus \in PaymentStatusInputs :
        GetEarnings(userId, window[1], window[2], paymentStatus)

LmkReportRoute ==
    \E userId \in ReadCallers, window \in WindowInputs, reportingStatus \in ReportingStatusInputs :
        GetLmkReport(userId, window[1], window[2], reportingStatus)

NextRead == Transactions \/ Summary \/ Earnings \/ LmkReportRoute

SpecRead == InitRead /\ [][NextRead]_vars

-----------------------------------------------------------------------------
(* PUT /profile *)
AllowedUpdates == {"name", "avatar", "preferences", "businessInfo", "artistInfo"}

(* the fields of businessInfo and of artistInfo that a user of the model keeps *)
BusinessInfoFields == {"companyName", "businessType", "licenseStatus", "lmkRegistrationNumber"}
ArtistInfoFields == {"lmkMemberNumber"}

BusinessTypeEnum == {"restaurant", "retail", "office", "hotel", "cafe", "gym", "other"}
LicenseStatusEnum == {"pending", "active", "suspended", "expired"}

(* what a document read from the store shows for a field it does not have: *)
(* the default of the schema, or nothing                                   *)
SchemaDefault(field) == IF field = "licenseStatus" THEN "pending" ELSE "none"

(* delete info[f] for every f of fields *)
Without(info, fields) == [k \in DOMAIN info \ fields |-> info[k]]

(* the updates object of PUT /profile: the allowed keys of the body, the   *)
(* protected fields deleted from the caller's own kind of info             *)
ProfileUpdates(u, body) ==
    [k \in DOMAIN body \cap AllowedUpdates |->
        IF k = "businessInfo" /\ u.role = "business"
        THEN Without(body[k], {"licenseStatus", "lmkRegistrationNumber"})
        ELSE IF k = "artistInfo" /\ u.role = "artist"
        THEN Without(body[k], {"lmkMemberNumber"})
        ELSE body[k]]

(* runValidators: the enums of the schema *)
ValidUpdates(updates) ==
    "businessInfo" \in DOMAIN updates =>
        LET info == updates["businessInfo"]
        IN  /\ "businessType" \in DOMAIN info => info["businessType"] \in BusinessTypeEnum
            /\ "licenseStatus" \in DOMAIN info => info["licenseStatus"] \in LicenseStatusEnum

(* the user after User.findByIdAndUpdate(_id, { $set: updates }): $set of  *)
(* businessInfo or artistInfo puts the object given in place of the stored *)
(* one, fields that the object lacks included                              *)
SetUpdates(u, updates) ==
    [f \in DOMAIN u |->
        IF f \in BusinessInfoFields /\ "businessInfo" \in DOMAIN updates
        THEN IF f \in DOMAIN updates["businessInfo"]
             THEN updates["businessInfo"][f] ELSE SchemaDefault(f)
        ELSE IF f \in ArtistInfoFields /\ "artistInfo" \in DOMAIN updates
        THEN IF f \in DOMAIN updates["artistInfo"]
             THEN updates["artistInfo"][f] ELSE SchemaDefault(f)
        ELSE IF f = "name" /\ "name" \in DOMAIN updates
        THEN updates["name"]
        ELSE u[f]]

PutProfile(userId, body) ==
    LET u == users[userId]
        updates == ProfileUpdates(u, body)
    IN  IF ~ValidUpdates(updates)
        THEN /\ response' = ErrorResponse("profile", 400, "VALIDATION_ERROR")
             /\ UNCHANGED <<transactions, analytics, plays, requests, now, users, works, limiter, handled>>
        ELSE /\ users' = [users EXCEPT ![userId] = SetUpdates(u, updates)]
             /\ response' = ReadResponse("profile", [kind |-> "profile", caller |-> userId,
                                                     user |-> users'[userId]])
             /\ UNCHANGED <<transactions, analytics, plays, requests, now, works, limiter, handled>>

ProfileCallers == {"b1", "b3", "a1"}

(* request bodies: a name, a key that is not allowed, businessInfo with and *)
(* without the protected fields, a businessType outside of the enum,        *)
(* artistInfo with the protected field                                      *)
ProfileBodies ==
    {[name |-> "n1"],
     [role |-> "admin"],
     [businessInfo |-> [companyName |-> "acme"]],
     [businessInfo |-> [companyName |-> "acme", businessType |-> "hotel"]],
     [businessInfo |-> [companyName |-> "acme", licenseStatus |-> "active",
                        lmkRegistrationNumber |-> "REG-9"]],
     [businessInfo |-> [businessType |-> "school"]],
     [artistInfo |-> [lmkMemberNumber |-> "LMK-9"]]}

UpdateProfile == \E userId \in ProfileCallers, body \in ProfileBodies : PutProfile(userId, body)

(* GET /transactions without filters, by a caller whose profile may have changed *)
ListTransactions ==
    \E userId \in ProfileCallers : GetTransactions(userId, NoDate, NoDate, "unset", "unset")

NextProfile == UpdateProfile \/ ListTransactions

SpecProfile == Init /\ [][NextProfile]_vars

-----------------------------------------------------------------------------
(* POST /register.  A user is known by the email, which is unique.         *)

RoleEnum == {"user", "business", "artist", "admin"}

(* new User(userData) as save() stores it: the role of the body, the       *)
(* businessInfo or artistInfo of the body for that role, the defaults of   *)
(* the schema for what is left out                                         *)
NewUser(role, info) ==
    [f \in DOMAIN Users["b1"] |->
        CASE f = "role"       -> role
          [] f = "isVerified" -> FALSE
          [] f = "name"       -> "n0"
          [] f \in BusinessInfoFields ->
                 IF role = "business" /\ f \in DOMAIN info THEN info[f] ELSE SchemaDefault(f)
          [] f \in ArtistInfoFields ->
                 IF role = "artist" /\ f \in DOMAIN info THEN info[f] ELSE SchemaDefault(f)]

(* the validators of save(): the enums of the schema *)
ValidUser(u) ==
    /\ u.role \in RoleEnum
    /\ u.businessType \in BusinessTypeEnum \cup {"none"}
    /\ u.licenseStatus \in LicenseStatusEnum

(* POST /register; complete: the body has email, password of six or more   *)
(* characters and name; info: the businessInfo or artistInfo of the body   *)
PostRegister(email, complete, roleInput, info) ==
    LET role == IF roleInput = "unset" THEN "user" ELSE roleInput
        code == IF ~complete THEN "MISSING_REQUIRED_FIELDS"
                ELSE IF email \in DOMAIN users THEN "EMAIL_ALREADY_EXISTS"
                ELSE IF role = "business"
                        /\ ~({"companyName", "businessType"} \subseteq DOMAIN info)
                THEN "MISSING_BUSINESS_INFO"
                ELSE IF role = "artist" /\ "stageName" \notin DOMAIN info
                THEN "MISSING_ARTIST_INFO"
                ELSE IF ~ValidUser(NewUser(role, info)) THEN "REGISTRATION_ERROR"
                ELSE "save"
    IN  IF code # "save"
        THEN /\ response' = ErrorResponse("register",
                                          IF code = "REGISTRATION_ERROR" THEN 500 ELSE 400, code)
             /\ UNCHANGED <<transactions, analytics, plays, requests, now, users, works, limiter, handled>>
        ELSE /\ users' = [id \in DOMAIN users \cup {email} |->
                              IF id = email THEN NewUser(role, info) ELSE users[id]]
             /\ response' = [NoResponse EXCEPT !.route = "register", !.status = 201,
                                               !.body = [kind |-> "profile", caller |-> email,
                                                         user |-> users'[email]]]
             /\ UNCHANGED <<transactions, analytics, plays, requests, now, works, limiter, handled>>

EmailInputs == {"u1", "b1"}
RoleInputs == {"unset", "business", "artist", "admin", "owner"}

(* businessInfo or artistInfo of the body: none, the required fields, the  *)
(* required fields with a licence                                          *)
InfoInputs ==
    {[stageName |-> "s1"],
     [companyName |-> "acme", businessType |-> "cafe"],
     [companyName |-> "acme", businessType |-> "cafe", licenseStatus |-> "active",
      lmkRegistrationNumber |-> "REG-9"]}

Register ==
    \E email \in EmailInputs, complete \in BOOLEAN, roleInput \in RoleInputs, info \in InfoInputs :
        PostRegister(email, complete, roleInput, info)

(* the users that no admin has licensed or made admin: the registered ones *)
(* and the business whose licence is pending                               *)
Outsiders == (DOMAIN users \ UserIds) \cup {"b3"}

UpdateOwnProfile == \E userId \in Outsiders, body \in ProfileBodies : PutProfile(userId, body)

NextAccounts == Register \/ UpdateOwnProfile

SpecAccounts == Init /\ [][NextAccounts]_vars

-----------------------------------------------------------------------------
(* The works of the artists: POST /upload, PUT /:id, PUT /:id/approve,     *)
(* PUT /:id/reject                                                         *)

ComplianceStatusEnum == {"pending", "approved", "rejected", "expired"}

(* new Music({...}) of POST /upload as save() stores it: status review, the *)
(* lmkInfo of the request under the copyright owner, defaults of the schema *)
(* for what the request leaves out                                          *)
NewWork(userId, title, complianceStatus, t) ==
    [artist |-> userId, title |-> title, isActive |-> TRUE,
     status |-> "review",
     complianceStatus |-> IF complianceStatus = "unset" THEN "pending" ELSE complianceStatus,
     allowedBusinessTypes |-> {},
     rejectionReason |-> "none",
     publishedAt |-> NoDate]

(* POST /upload *)
PostUpload(userId, title, hasAudioFile, complianceStatus) ==
    LET u == users[userId]
        code == IF requireArtistVerification(u) # "next" THEN requireArtistVerification(u)
                ELSE IF title = "none" THEN "MISSING_REQUIRED_FIELDS"
                ELSE IF ~hasAudioFile THEN "MISSING_AUDIO_FILE"
                ELSE IF complianceStatus \notin ComplianceStatusEnum \cup {"unset"} THEN "UPLOAD_ERROR"
                ELSE "save"
    IN  IF code # "save"
        THEN /\ response' = ErrorResponse("upload",
                                          CASE code = "UPLOAD_ERROR" -> 500
                                            [] code \in {"MISSING_REQUIRED_FIELDS", "MISSING_AUDIO_FILE"} -> 400
                                            [] OTHER -> 403,
                                          code)
             /\ UNCHANGED <<transactions, analytics, plays, requests, now, users, works, limiter, handled>>
        ELSE /\ Len(works) < MaxWorks
             /\ works' = Append(works, NewWork(userId, title, complianceStatus, now))
             /\ response' = [NoResponse EXCEPT !.route = "upload", !.status = 201,
                                               !.body = [kind |-> "music", id |-> Len(works) + 1,
                                                         status |-> "review"]]
             /\ UNCHANGED <<transactions, analytics, plays, requests, now, users, limiter, handled>>

(* allowedUpdates of PUT /:id *)
AllowedMusicUpdates == {"title", "album", "genre", "metadata", "businessLicense"}

(* an updates object that takes every key of the body *)
MusicUpdatesUnfiltered(body) == body

(* the updates object of PUT /:id: the allowed keys of the body *)
MusicUpdates(body) == [k \in DOMAIN body \cap AllowedMusicUpdates |-> body[k]]

(* the work after Music.findByIdAndUpdate(id, { $set: updates }): a key of *)
(* updates puts its value in place of the stored one; metadata holds the   *)
(* rejection reason, lmkInfo the compliance status, businessLicense the    *)
(* allowed business types                                                  *)
SetMusicUpdates(work, updates) ==
    [f \in DOMAIN work |->
        IF f \in {"title", "status"} /\ f \in DOMAIN updates THEN updates[f]
        ELSE IF f = "rejectionReason" /\ "metadata" \in DOMAIN updates THEN "none"
        ELSE IF f = "allowedBusinessTypes" /\ "businessLicense" \in DOMAIN updates
        THEN updates["businessLicense"]["allowedBusinessTypes"]
        ELSE IF f = "complianceStatus" /\ "lmkInfo" \in DOMAIN updates
        THEN updates["lmkInfo"]["complianceStatus"]
        ELSE work[f]]

MusicResponse(route, id, work) ==
    [NoResponse EXCEPT !.route = route, !.status = 200,
                       !.body = [kind |-> "music", id |-> id, status |-> work.status]]

(* PUT /:id *)
PutMusic(userId, id, body) ==
    LET u == users[userId]
        code == IF requireArtistVerification(u) # "next" THEN requireArtistVerification(u)
                ELSE IF id \notin DOMAIN works THEN "MUSIC_NOT_FOUND"
                ELSE IF works[id].artist # userId THEN "UNAUTHORIZED_UPDATE"
                ELSE "update"
    IN  IF code # "update"
        THEN /\ response' = ErrorResponse("music-update",
                                          IF code = "MUSIC_NOT_FOUND" THEN 404 ELSE 403, code)
             /\ UNCHANGED <<transactions, analytics, plays, requests, now, users, works, limiter, handled>>
        ELSE /\ works' = [works EXCEPT ![id] = SetMusicUpdates(@, MusicUpdates(body))]
             /\ response' = MusicResponse("music-update", id, works'[id])
             /\ UNCHANGED <<transactions, analytics, plays, requests, now, users, limiter, handled>>

(* PUT /:id/approve and PUT /:id/reject: the $set of the route *)
Review(route, userId, id, reason) ==
    LET u == users[userId]
        code == IF requireRole({"admin"}, u) # "next" THEN "INSUFFICIENT_PERMISSIONS"
                ELSE IF id \notin DOMAIN works THEN "MUSIC_NOT_FOUND"
                ELSE "update"
    IN  IF code # "update"
        THEN /\ response' = ErrorResponse(route, IF code = "MUSIC_NOT_FOUND" THEN 404 ELSE 403, code)
             /\ UNCHANGED <<transactions, analytics, plays, requests, now, users, works, limiter, handled>>
        ELSE /\ works' = [works EXCEPT ![id] =
                             IF route = "approve"
                             THEN [@ EXCEPT !.status = "published",
                                            !.complianceStatus = "approved",
                                            !.publishedAt = now]
                             ELSE [@ EXCEPT !.status = "archived",
                                            !.complianceStatus = "rejected",
                                            !.rejectionReason = reason]]
             /\ response' = MusicResponse(route, id, works'[id])
             /\ UNCHANGED <<transactions, analytics, plays, requests, now, users, limiter, handled>>

PutApprove(userId, id) == Review("approve", userId, id, "none")

PutReject(userId, id, reason) == Review("reject", userId, id, reason)

WorkCallers == {"a1", "a2", "adm"}
WorkIdInputs == 1..MaxWorks
TitleInputs == {"t1", "none"}
ComplianceInputs == {"unset", "approved"}

(* request bodies of PUT /:id: a title, the licence, and bodies that name   *)
(* status and lmkInfo                                                       *)
MusicBodies ==
    {[title |-> "t2"],
     [businessLicense |-> [allowedBusinessTypes |-> {"cafe"}]],
     [status |-> "published"],
     [title |-> "t2", status |-> "published"],
     [lmkInfo |-> [complianceStatus |-> "approved"]]}

Upload ==
    \E userId \in WorkCallers, title \in TitleInputs, hasAudioFile \in BOOLEAN,
       complianceStatus \in ComplianceInputs :
        PostUpload(userId, title, hasAudioFile, complianceStatus)

UpdateMusic ==
    \E userId \in WorkCallers, id \in WorkIdInputs, body \in MusicBodies : PutMusic(userId, id, body)

Approve == \E userId \in WorkCallers, id \in WorkIdInputs : PutApprove(userId, id)

Reject == \E userId \in WorkCallers, id \in WorkIdInputs : PutReject(userId, id, "r1")

NextWorks == Upload \/ UpdateMusic \/ Approve \/ Reject

SpecWorks == Init /\ [][NextWorks]_vars

-----------------------------------------------------------------------------
(* The middleware returned by rateLimitByUser(maxRequests, windowMs) *)
RateLimit(req) ==
    LET userId == LimiterKey(req)
        windowStart == now - limiter.windowMs
        userRequests == IF userId \in limiter.keys
                        THEN LiveRequests(limiter.times[userId], windowStart)
                        ELSE <<>>
        admit == ~(Len(userRequests) >= limiter.maxRequests)
    IN  /\ Len(handled) < MaxHandled
        /\ limiter' = [limiter EXCEPT !.keys = @ \cup {userId},
                                      !.times[userId] = IF admit THEN Append(userRequests, now)
                                                        ELSE userRequests]
        /\ response' = IF admit THEN [NoResponse EXCEPT !.route = "rate-limit", !.code = "next"]
                        ELSE ErrorResponse("rate-limit", 429, "RATE_LIMIT_EXCEEDED")
        /\ handled' = Append(handled, [key |-> userId, time |-> now, admitted |-> admit])
        /\ UNCHANGED <<transactions, analytics, plays, requests, now, users, works>>

(* the values of maxRequests and of windowMs the limiter is built with *)
LimiterParameters == {0, 1, 2}

InitLimiter ==
    /\ transactions = <<>>
    /\ analytics = [m \in MusicIds |-> [totalPlays |-> 0, businessPlays |-> 0, lastPlayed |-> NoDate]]
    /\ plays = {}
    /\ requests = <<>>
    /\ now = 0
    /\ response = NoResponse
    /\ users = Users
    /\ works = <<>>
    /\ \E maxRequests \in LimiterParameters, windowMs \in LimiterParameters :
           limiter = NewLimiter(maxRequests, windowMs)
    /\ handled = <<>>

LimitedRequest == \E req \in LimiterRequests : RateLimit(req)

(* time passes between limited requests *)
TickLimiter ==
    /\ now < MaxLimiterTime
    /\ now' = now + 1
    /\ UNCHANGED <<transactions, analytics, plays, requests, response, users, works, limiter, handled>>

NextLimiter == LimitedRequest \/ TickLimiter

SpecLimiter == InitLimiter /\ [][NextLimiter]_vars

-----------------------------------------------------------------------------
(* RecordPlay against a store that may fail the counter update *)
UpdateAnalyticsFails == \E id \in TxIds : PlayUpdateFails(id)

NextFault ==
    \/ RecordPlay(PlayCallers, PlayMusicIds, PlayTypeInputs, DurationInputs)
    \/ UpdateAnalytics
    \/ UpdateAnalyticsFails

SpecFault == Init /\ [][NextFault]_vars

-----------------------------------------------------------------------------
(* Properties *)

(* s is a prefix of t *)
IsPrefix(s, t) == Len(s) <= Len(t) /\ \A i \in 1..Len(s) : s[i] = t[i]

(* the timestamps of an audit trail never decrease *)
NonDecreasing(trail) ==
    \A i \in 1..Len(trail), j \in 1..Len(trail) :
        i < j => trail[i].timestamp <= trail[j].timestamp

(* what an initiation may touch of a transaction *)
PaymentView(tx) == <<tx.status, tx.paymentMethod, tx.transactionId, tx.auditTrail>>

(* what a completion may touch of a transaction *)
CompletionView(tx) == <<tx.status, tx.reportingStatus, tx.reportedToLMK, tx.auditTrail>>

(* the edges of the payment state machine *)
PaymentEdges ==
    {<<"pending", "processing">>, <<"processing", "completed">>, <<"processing", "failed">>,
     <<"completed", "disputed">>, <<"disputed", "refunded">>}

(* C1: in every reachable state no transaction has reportingStatus reported, *)
(* confirmed or disputed while its payment status is pending or processing.  *)
C1_ReportingNeverAheadOfPayment ==
    \A id \in TxIds :
        transactions[id].reportingStatus \in {"reported", "confirmed", "disputed"}
            => transactions[id].status \notin {"pending", "processing"}

(* C2: the bulkWrite of a request leaves status, method, external id and    *)
(* audit trail of every requested transaction that is not pending at that   *)
(* moment unchanged, and the request does not count such a transaction.     *)
C2_InitiationSparesNonPending ==
    [][\A r \in DOMAIN requests :
          PaymentBulkWrite(r) =>
              \A id \in requests[r].ids :
                  transactions[id].status # "pending" =>
                      /\ PaymentView(transactions'[id]) = PaymentView(transactions[id])
                      /\ id \notin requests[r].found]_vars

(* C3: the completion callback of a request leaves payment status,          *)
(* reportingStatus, reportedToLMK and audit trail of every requested        *)
(* transaction that is not processing at that moment unchanged.             *)
C3_CompletionSparesNonProcessing ==
    [][\A r \in DOMAIN requests :
          PaymentComplete(r) =>
              \A id \in requests[r].ids :
                  transactions[id].status # "processing" =>
                      CompletionView(transactions'[id]) = CompletionView(transactions[id])]_vars

(* C4: of two requests that ask for the same pending transaction, only one  *)
(* moves it to processing and counts it: no transaction is in the batch     *)
(* results of two requests that have both written and answered.             *)
C4_OneRequestCountsATransaction ==
    \A r1 \in DOMAIN requests, r2 \in DOMAIN requests :
        (r1 # r2 /\ requests[r1].pc = "timer" /\ requests[r2].pc = "timer")
            => requests[r1].found \cap requests[r2].found = {}

(* C5: every step changes the payment status of a transaction only along    *)
(* an edge of the payment state machine.                                    *)
C5_StatusFollowsEdges ==
    [][\A id \in TxIds :
          transactions'[id].status # transactions[id].status
              => <<transactions[id].status, transactions'[id].status>> \in PaymentEdges]_vars

(* C6: every step leaves the audit trail of every transaction a prefix of   *)
(* the new trail, and the timestamps of the new trail never decrease.       *)
C6_AuditTrailAppendOnly ==
    [][\A id \in TxIds :
          /\ IsPrefix(transactions[id].auditTrail, transactions'[id].auditTrail)
          /\ NonDecreasing(transactions'[id].auditTrail)]_vars

(* C7: when the callback of the only request in flight completes a          *)
(* transaction this request initiated, the trail afterwards has exactly two *)
(* entries, payment_initiated then payment_completed, the second not        *)
(* earlier than the first.                                                  *)
C7_TrailInitiatedThenCompleted ==
    [][\A r \in DOMAIN requests :
          (PaymentComplete(r) /\ Len(requests) = 1) =>
              \A id \in requests[r].found :
                  (transactions[id].status = "processing"
                       /\ transactions[id].transactionId = <<requests[r].deadline - CompletionDelay, id>>) =>
                      LET trail == transactions'[id].auditTrail
                      IN  /\ Len(trail) = 2
                          /\ trail[1].action = "payment_initiated"
                          /\ trail[2].action = "payment_completed"
                          /\ trail[2].timestamp >= trail[1].timestamp]_vars

(* C8: no step changes music, business, artist, play info or royalty info   *)
(* of a stored transaction.                                                 *)
C8_IdentityImmutable ==
    [][\A id \in TxIds : Identity(transactions'[id]) = Identity(transactions[id])]_vars

(* a transaction was completed and another one was recorded afterwards *)
C8_Witness ==
    /\ Len(transactions) >= 2
    /\ transactions[1].status = "completed"
    /\ transactions[2].playDate >= transactions[1].reportedToLMK

(* C9: every stored transaction is for a work that exists, is active,       *)
(* published and approved and allows the caller's business type, and for a  *)
(* caller with role business and an active license.                         *)
C9_OnlyEligiblePlaysStored ==
    \A id \in TxIds :
        LET tx == transactions[id] IN
        /\ tx.music \in MusicIds
        /\ Music[tx.music].isActive
        /\ Music[tx.music].status = "published"
        /\ Music[tx.music].complianceStatus = "approved"
        /\ \/ Music[tx.music].allowedBusinessTypes = {}
           \/ Users[tx.business].businessType \in Music[tx.music].allowedBusinessTypes
        /\ Users[tx.business].role = "business"
        /\ Users[tx.business].licenseStatus = "active"

(* a play of the restricted work was stored and a later call was refused *)
C9_Witness ==
    /\ \E id \in TxIds : transactions[id].music = "w2"
    /\ response.code = "MUSIC_NOT_AVAILABLE"

(* C10: a transaction enters the store with payment status pending,         *)
(* reportingStatus pending and an empty audit trail, and the 201 result of  *)
(* RecordPlay reports reportingStatus pending.                              *)
C10_CreatedPending ==
    [][/\ \A id \in (DOMAIN transactions') \ TxIds :
              /\ transactions'[id].status = "pending"
              /\ transactions'[id].reportingStatus = "pending"
              /\ transactions'[id].auditTrail = <<>>
       /\ (response'.route = "play" /\ response'.status = 201)
              => response'.reportingStatus = "pending"]_vars

(* RecordPlay answered 201 for a transaction that is stored as created *)
C10_Witness ==
    /\ response.route = "play"
    /\ response.status = 201
    /\ transactions[response.id].status = "pending"
    /\ transactions[response.id].auditTrail = <<>>

(* C11: a RecordPlay call that answers with an error leaves nothing behind:  *)
(* an error before the save changes neither the transactions nor the play  *)
(* counters, and after a failed counter update the transaction the call     *)
(* saved is no longer in the store.                                         *)
C11_ErrorLeavesNothingBehind ==
    [][/\ \A userId \in PlayCallers, musicId \in PlayMusicIds, playType \in PlayTypeInputs :
              PlayReject(userId, musicId, playType)
                  => (transactions' = transactions /\ analytics' = analytics)
       /\ \A id \in plays :
              PlayUpdateFails(id)
                  => (id \notin DOMAIN transactions' /\ analytics' = analytics)]_vars

(* the stored plays of a work *)
PlaysOf(w) == {id \in TxIds : transactions[id].music = w}

(* C12: for every work, totalPlays and businessPlays are at most the number *)
(* of stored transactions of the work, and equal to it when no RecordPlay   *)
(* call on the work is between its save and its counter update.             *)
C12_CounterFollowsLedger ==
    \A w \in MusicIds :
        /\ analytics[w].totalPlays <= Cardinality(PlaysOf(w))
        /\ analytics[w].businessPlays <= Cardinality(PlaysOf(w))
        /\ PlaysOf(w) \cap plays = {}
               => /\ analytics[w].totalPlays = Cardinality(PlaysOf(w))
                  /\ analytics[w].businessPlays = Cardinality(PlaysOf(w))

(* two calls on one work overlapped: the later one has counted its play,    *)
(* the earlier one has saved but not counted yet                            *)
C12_Witness ==
    /\ Len(transactions) = 2
    /\ transactions[1].music = transactions[2].music
    /\ plays = {1}
    /\ analytics[transactions[1].music].totalPlays = 1

(* the rate of a work that the play type selects *)
RateFor(m, playType) ==
    IF playType = "commercial" THEN m.royaltyRate.synchronization
    ELSE IF playType = "performance" THEN m.royaltyRate.performance
    ELSE m.royaltyRate.mechanical

(* C13: every stored transaction has calculatedAmount = baseRate = the rate *)
(* of its work selected by its play type (synchronization for commercial,   *)
(* performance for performance, mechanical otherwise), whatever its         *)
(* duration.                                                                *)
C13_AmountIsRateOfPlayType ==
    \A id \in TxIds :
        LET tx == transactions[id] IN
        /\ tx.calculatedAmount = tx.baseRate
        /\ tx.baseRate = RateFor(Music[tx.music], tx.playType)
        /\ \A playType \in PlayTypeInputs :
               calculateRoyalty(Music[tx.music], DefaultPlayType(playType))
                   = RateFor(Music[tx.music], DefaultPlayType(playType))

(* a commercial play with a duration of its own and a background play with  *)
(* the duration of the work, both of w1                                     *)
C13_Witness ==
    \E i \in TxIds, j \in TxIds :
        /\ transactions[i].music = "w1" /\ transactions[j].music = "w1"
        /\ transactions[i].playType = "commercial" /\ transactions[i].duration = 30
        /\ transactions[i].calculatedAmount = 5000
        /\ transactions[j].playType = "background" /\ transactions[j].duration = 180
        /\ transactions[j].calculatedAmount = 1000

(* payees holds one entry per rights holder, each paid its share of bucket  *)
(* percent of amount                                                        *)
PaysEach(payees, holders, amount, bucket) ==
    /\ Len(payees) = Len(holders)
    /\ \A i \in 1..Len(holders) :
           /\ payees[i].amount * 10000 = amount * holders[i].sharePercentage * bucket
           /\ payees[i].percentage = holders[i].sharePercentage

(* C14: a transaction enters the store with artist amount 70% of A, each    *)
(* publisher A * share/100 * 15%, each composer A * share/100 * 10%, each   *)
(* lyricist A * share/100 * 5%, lmkFee 5% of A and platformFee 10% of A,    *)
(* one entry per rights holder; the step that computes it changes neither   *)
(* the transactions already stored nor the play counters.                   *)
C14_DistributionByFixedShares ==
    [][\A id \in (DOMAIN transactions') \ TxIds :
          LET tx == transactions'[id]
              m == Music[tx.music]
              A == tx.calculatedAmount
              d == tx.distribution
          IN  /\ d.artist.amount * 100 = A * 70
              /\ PaysEach(d.publishers, m.publishers, A, 15)
              /\ PaysEach(d.composers, m.composers, A, 10)
              /\ PaysEach(d.lyricists, m.lyricists, A, 5)
              /\ d.lmkFee.amount * 100 = A * 5
              /\ d.platformFee.amount * 100 = A * 10
              /\ \A old \in TxIds : transactions'[old] = transactions[old]
              /\ analytics' = analytics]_vars

(* a play of w2, which lists publishers, a composer and a lyricist, was     *)
(* stored after an earlier transaction                                      *)
C14_Witness ==
    /\ Len(transactions) = 2
    /\ transactions[2].music = "w2"
    /\ transactions[2].playType = "commercial"
    /\ Len(transactions[2].distribution.composers) = 1
    /\ transactions[2].distribution.lyricists[1].amount = 100

(* everything a transaction pays out: the rights holders and the two fees *)
TotalDisbursed(tx) ==
    calculateTotalRoyalty(tx) + tx.distribution.lmkFee.amount
        + tx.distribution.platformFee.amount

(* C15: for a stored transaction of a work without composers and lyricists  *)
(* whose publisher shares sum to 100, artist, publishers, lmkFee and        *)
(* platformFee add up to calculatedAmount; a commercial play at rate 5000   *)
(* with two publishers at 50 pays 3500 + 375 + 375 + 250 + 500.             *)
C15_ConservedWhenSharesSumTo100 ==
    \A id \in TxIds :
        LET tx == transactions[id]
            m == Music[tx.music]
            d == tx.distribution
        IN  (m.composers = <<>> /\ m.lyricists = <<>> /\ TotalShare(m.publishers) = 100) =>
                /\ TotalDisbursed(tx) = tx.calculatedAmount
                /\ (tx.playType = "commercial" /\ m.royaltyRate.synchronization = 5000
                        /\ m.publishers = <<Holder(50), Holder(50)>>) =>
                       /\ d.artist.amount = 3500
                       /\ d.publishers[1].amount = 375
                       /\ d.publishers[2].amount = 375
                       /\ d.lmkFee.amount = 250
                       /\ d.platformFee.amount = 500

(* a commercial play of w1 is stored *)
C15_Witness ==
    \E id \in TxIds :
        /\ transactions[id].music = "w1"
        /\ transactions[id].playType = "commercial"
        /\ TotalDisbursed(transactions[id]) = 5000

(* C16: a commercial play at rate 5000 of a work with two publishers at 100 *)
(* and no composers or lyricists is accepted, and is stored with publisher  *)
(* amounts 750 and 750 and a sum of all buckets of 5750, above its          *)
(* calculatedAmount of 5000.                                                *)
C16_OverallocationStored ==
    /\ \A w \in MusicIds, userId \in CalcCallers :
           (/\ Music[w].publishers = <<Holder(100), Holder(100)>>
            /\ Music[w].composers = <<>> /\ Music[w].lyricists = <<>>
            /\ isAvailableForBusiness(Music[w], Users[userId].businessType))
               => PlayOutcome(userId, w, "commercial") = "save"
    /\ \A id \in TxIds :
           LET tx == transactions[id]
               m == Music[tx.music]
               d == tx.distribution
           IN  (/\ tx.playType = "commercial" /\ m.royaltyRate.synchronization = 5000
                /\ m.publishers = <<Holder(100), Holder(100)>>
                /\ m.composers = <<>> /\ m.lyricists = <<>>) =>
                   /\ tx.calculatedAmount = 5000
                   /\ d.publishers[1].amount = 750
                   /\ d.publishers[2].amount = 750
                   /\ TotalDisbursed(tx) = 5750
                   /\ TotalDisbursed(tx) > tx.calculatedAmount

(* a commercial play of w5 is stored and its call was answered 201 *)
C16_Witness ==
    \E id \in TxIds :
        /\ transactions[id].music = "w5"
        /\ transactions[id].playType = "commercial"
        /\ id \notin plays
        /\ response.status = 201 /\ response.id = id

(* C17: for every transaction, every time now and every result of the      *)
(* overdue check made at now: the check is true exactly when the payment    *)
(* status is not completed and now - playDate is more than 30 days; at      *)
(* exactly 30 days it is false, and it is false for a completed             *)
(* transaction of any age.                                                  *)
C17_OverdueAfterThirtyDays ==
    \A id \in TxIds :
        LET tx == transactions[id]
            age == now - tx.playDate
        IN  /\ isPaymentOverdue(tx, now) = (tx.status # "completed" /\ age > TermEnd)
            /\ age = TermEnd => ~isPaymentOverdue(tx, now)
            /\ tx.status = "completed" => ~isPaymentOverdue(tx, now)
            /\ (response.route = "isPaymentOverdue" /\ response.id = id)
                   => (response.code = "overdue") = (tx.status # "completed" /\ age > TermEnd)

(* the check was called exactly 30 days after the play of a transaction    *)
(* that is still pending                                                   *)
C17_Witness ==
    /\ response.route = "isPaymentOverdue"
    /\ response.code = "not_overdue"
    /\ transactions[response.id].status = "pending"
    /\ now - transactions[response.id].playDate = TermEnd

(* C18: the bulkWrite step of a request answers with processedTransactions *)
(* = the number of requested ids that were pending and totalAmount = the    *)
(* sum of their calculatedAmount, and leaves each of them processing, with  *)
(* the requested method, an external transaction id and its audit trail     *)
(* extended by exactly one payment_initiated entry.                         *)
C18_InitiationResult ==
    [][\A r \in DOMAIN requests :
          PaymentBulkWrite(r) =>
              /\ response'.processedTransactions = Cardinality(requests[r].found)
              /\ response'.totalAmount = SumAmounts(requests[r].found)
              /\ \A id \in requests[r].found :
                     /\ transactions'[id].status = "processing"
                     /\ transactions'[id].paymentMethod = requests[r].method
                     /\ transactions'[id].transactionId # <<>>
                     /\ Len(transactions'[id].auditTrail) = Len(transactions[id].auditTrail) + 1
                     /\ IsPrefix(transactions[id].auditTrail, transactions'[id].auditTrail)
                     /\ transactions'[id].auditTrail[Len(transactions'[id].auditTrail)].action
                            = "payment_initiated"]_vars

(* C19: a request by an admin for a non-empty list of ids none of which is  *)
(* pending is answered with a batch result of 0 processed transactions and  *)
(* total amount 0, not with an error, and changes no transaction.           *)
C19_NothingPendingIsEmptyBatch ==
    [][\A userId \in PaymentCallers, ids \in SUBSET TxIds :
          (/\ PaymentReject(userId, TRUE, ids)
           /\ requireRole({"admin"}, Users[userId]) = "next"
           /\ ids # {}) =>
              /\ response'.status = 200
              /\ response'.code = "none"
              /\ response'.processedTransactions = 0
              /\ response'.totalAmount = 0
              /\ transactions' = transactions]_vars

(* C20: a step changes the reportingStatus of a transaction only from       *)
(* pending to reported, only while its payment status goes from processing  *)
(* to completed, and sets reportedToLMK in the same step; so every reported *)
(* transaction has reportedToLMK set and a payment that has left pending.   *)
C20_ReportedOnlyOnCompletion ==
    [][\A id \in TxIds :
          /\ transactions'[id].reportingStatus # transactions[id].reportingStatus =>
                 /\ transactions[id].reportingStatus = "pending"
                 /\ transactions'[id].reportingStatus = "reported"
                 /\ transactions[id].status = "processing"
                 /\ transactions'[id].status = "completed"
                 /\ transactions'[id].reportedToLMK = now
          /\ transactions'[id].reportingStatus = "reported" =>
                 /\ transactions'[id].reportedToLMK # NoDate
                 /\ transactions'[id].status \in {"processing", "completed"}]_vars

(* a transaction was reported by the completion of its payment, after the   *)
(* clock had moved                                                          *)
C20_Witness ==
    \E id \in TxIds :
        /\ transactions[id].reportingStatus = "reported"
        /\ transactions[id].status = "completed"
        /\ transactions[id].reportedToLMK = 1
        /\ transactions[id].paymentDate = 0

(* C24: no step removes a transaction: every transaction of a state is in   *)
(* the next state, under the same id.                                       *)
C24_TransactionsOnlyGrow ==
    [][/\ Len(transactions') >= Len(transactions)
       /\ \A id \in TxIds : id \in DOMAIN transactions']_vars

(* two transactions were stored, and both are still there after the first   *)
(* was settled and the request that settled it is gone                      *)
C24_Witness ==
    /\ Len(transactions) = 2
    /\ transactions[1].status = "completed"
    /\ transactions[2].status = "pending"
    /\ requests = <<>>

(* C25: a transaction enters the store only with a playType of background,  *)
(* foreground, commercial or promotional, background when the request names *)
(* none; a request with playType performance stores no transaction and      *)
(* changes no play counter.                                                 *)
C25_PlayTypeOfTheEnumOnly ==
    [][/\ \A id \in (DOMAIN transactions') \ TxIds :
              transactions'[id].playType \in {"background", "foreground", "commercial", "promotional"}
       /\ \A userId \in PlayCallers, musicId \in PlayMusicIds, duration \in DurationInputs :
              /\ PlaySave(userId, musicId, "unset", duration)
                     => transactions'[Len(transactions')].playType = "background"
              /\ ~PlaySave(userId, musicId, "performance", duration)
              /\ PlayReject(userId, musicId, "performance")
                     => (transactions' = transactions /\ analytics' = analytics /\ plays' = plays)]_vars

(* a performance play of an available work by a licensed business was       *)
(* refused after a play without playType had been stored and counted        *)
C25_Witness ==
    /\ response.route = "play"
    /\ response.code = "PLAY_RECORD_ERROR"
    /\ Len(transactions) = 1
    /\ transactions[1].playType = "background"
    /\ plays = {}
    /\ analytics[transactions[1].music].totalPlays = 1

(* C29: no transaction is completed with reportingStatus pending, so        *)
(* getPendingLMKReports finds nothing.                                      *)
C29_CompletedIsReported ==
    /\ \A id \in TxIds :
           ~(transactions[id].status = "completed" /\ transactions[id].reportingStatus = "pending")
    /\ getPendingLMKReports = {}

(* one transaction is settled and reported while another is still pending   *)
(* and unreported                                                           *)
C29_Witness ==
    \E i \in TxIds, j \in TxIds :
        /\ transactions[i].status = "completed"
        /\ transactions[i].reportingStatus = "reported"
        /\ transactions[j].status = "pending"
        /\ transactions[j].reportingStatus = "pending"
        /\ getPendingLMKReports = {}

(* every transaction that is processing is eventually completed and         *)
(* reported                                                                 *)
ProcessingLeadsToCompleted ==
    \A id \in 1..MaxTx :
        (id \in TxIds /\ transactions[id].status = "processing")
            ~> (id \in TxIds /\ transactions[id].status = "completed"
                    /\ transactions[id].reportingStatus = "reported")

(* a completed transaction is completed in the next state *)
CompletedStaysCompleted ==
    [][\A id \in TxIds :
          transactions[id].status = "completed" => transactions'[id].status = "completed"]_vars

(* C30: when callbacks that are due are run and no store call fails, every  *)
(* transaction that a request has moved to processing eventually is         *)
(* completed with reportingStatus reported, and a completed transaction     *)
(* stays completed in every later state.                                    *)
C30_ProcessingCompletesForGood ==
    ProcessingLeadsToCompleted /\ CompletedStaysCompleted

(* the scopes and windows getRoyaltySummary is evaluated on *)
SummaryScopes == {[business |-> "b1"], [artist |-> "a1"], [business |-> "b2", music |-> "w1"]}

(* the numbers of a summary are those of the set ids of transactions *)
SummarizesExactly(summary, ids) ==
    /\ summary.totalTransactions = Cardinality(ids)
    /\ summary.totalPlays = Cardinality(ids)
    /\ summary.totalRoyalties = SumAmounts(ids)
    /\ summary.averageRoyaltyPerPlay.num = summary.totalRoyalties
    /\ ids # {} =>
           /\ summary.averageRoyaltyPerPlay.den = Cardinality(ids)
           /\ summary.uniqueBusinessCount = Cardinality({transactions[id].business : id \in ids})
           /\ summary.uniqueArtistCount = Cardinality({transactions[id].artist : id \in ids})
           /\ summary.uniqueSongCount = Cardinality({transactions[id].music : id \in ids})
           /\ \A n \in {summary.uniqueBusinessCount, summary.uniqueArtistCount,
                         summary.uniqueSongCount} : 1 <= n /\ n <= Cardinality(ids)

(* C21: getRoyaltySummary(start, end, filters) is computed over exactly the *)
(* transactions with start <= playDate <= end that match the filter:        *)
(* totalTransactions = totalPlays = their count, totalRoyalties = the sum   *)
(* of their calculatedAmount, the average is that sum over the count, the   *)
(* unique counts are the numbers of distinct values, between 1 and the      *)
(* count; GET /summary reports it for the caller's transactions, and zeros  *)
(* when none matches.                                                       *)
C21_SummaryOverWindowAndScope ==
    /\ \A filters \in SummaryScopes, startDate \in ReadPlayDates, endDate \in ReadPlayDates :
           LET ids == {id \in TxIds :
                          /\ startDate <= transactions[id].playDate
                          /\ transactions[id].playDate <= endDate
                          /\ \A k \in DOMAIN filters : transactions[id][k] = filters[k]}
               result == getRoyaltySummary(startDate, endDate, filters)
           IN  IF ids = {} THEN result = <<>>
               ELSE Len(result) = 1 /\ SummarizesExactly(result[1], ids)
    /\ (response.route = "summary" /\ response.status = 200) =>
           LET b == response.body
               ids == {id \in TxIds :
                          /\ transactions[id].business = b.caller
                          /\ b.startDate <= transactions[id].playDate
                          /\ transactions[id].playDate <= b.endDate}
           IN  SummarizesExactly(b.summary, ids)

(* GET /summary answered for one play of the caller inside the window, the  *)
(* caller's other play being outside of it                                  *)
C21_Witness ==
    /\ response.route = "summary" /\ response.status = 200
    /\ Len(transactions) = 2
    /\ transactions[1].business = response.body.caller
    /\ transactions[2].business = response.body.caller
    /\ response.body.summary.totalTransactions = 1
    /\ response.body.summary.totalRoyalties = 5000

RECURSIVE SumGroups(_, _)
(* the sum of one field over the groups of a report *)
SumGroups(report, field) ==
    IF report = <<>> THEN 0
    ELSE Head(report)[field] + SumGroups(Tail(report), field)

C23_ScopedToTheCaller ==
    response.status = 200 =>
        LET b == response.body
            OfBusiness(ids) == \A id \in ids : transactions[id].business = b.caller
            OfArtist(ids) == \A id \in ids : transactions[id].artist = b.caller
        IN  /\ response.route = "transactions" =>
                   (Users[b.caller].role = "business" /\ OfBusiness(b.transactions))
            /\ response.route = "summary" =>
                   /\ Users[b.caller].role = "business"
                   /\ OfBusiness(b.matched) /\ OfBusiness(b.pendingMatched)
                   /\ OfBusiness(b.overdueMatched)
            /\ response.route = "earnings" =>
                   /\ Users[b.caller].role = "artist"
                   /\ OfArtist(b.transactions) /\ OfArtist(b.earningsMatched)
            /\ response.route = "lmk-report" =>
                   /\ Users[b.caller].role \in {"artist", "admin"}
                   /\ Users[b.caller].role = "artist" => OfArtist(b.matched)
                   /\ (\E id \in b.matched : transactions[id].artist # b.caller)
                          => Users[b.caller].role = "admin"

(* an artist asked for the reported transactions and got the one of two     *)
(* that is the artist's own                                                 *)
C23_Witness ==
    /\ response.route = "lmk-report" /\ response.status = 200
    /\ Users[response.body.caller].role = "artist"
    /\ response.body.reportingStatus = "reported"
    /\ Cardinality(response.body.matched) = 1
    /\ \E id \in TxIds :
           /\ transactions[id].artist # response.body.caller
           /\ transactions[id].reportingStatus = "reported"
           /\ transactions[id].playDate >= ReadNow - TermEnd

(* C26: totalEarnings of GET /earnings is the sum of distribution.artist.   *)
(* amount over the caller's completed transactions and no others, whatever  *)
(* the query, and 0 when the artist has none.                               *)
C26_EarningsAreCompletedOnly ==
    (response.route = "earnings" /\ response.status = 200) =>
        LET b == response.body
            completed == {id \in TxIds : /\ transactions[id].artist = b.caller
                                         /\ transactions[id].status = "completed"}
        IN  /\ b.totalEarnings = SumField(completed, "artistAmount")
            /\ b.earningsMatched = completed
            /\ completed = {} => b.totalEarnings = 0

(* an artist listed a pending transaction; the total is the artist amount   *)
(* of the completed one alone                                               *)
C26_Witness ==
    /\ response.route = "earnings" /\ response.status = 200
    /\ \E id \in response.body.transactions : transactions[id].status = "pending"
    /\ response.body.totalEarnings = 3500

(* C28: overduePayments of GET /summary counts exactly the caller's         *)
(* transactions for which isPaymentOverdue is true at that instant, and     *)
(* totalOverdue is the sum of their calculatedAmount.                       *)
C28_SummaryOverdueIsOverdue ==
    (response.route = "summary" /\ response.status = 200) =>
        LET b == response.body
            overdue == {id \in TxIds : /\ transactions[id].business = b.caller
                                       /\ isPaymentOverdue(transactions[id], now)}
        IN  /\ b.overdueMatched = overdue
            /\ b.overduePayments.count = Cardinality(overdue)
            /\ b.overduePayments.totalOverdue = SumAmounts(overdue)

(* C27: a profile update by a business user leaves that user's             *)
(* businessInfo.licenseStatus and businessInfo.lmkRegistrationNumber as     *)
(* they were, whatever the request body holds.                              *)
C27_LicenseFieldsKept ==
    [][\A userId \in UserIds :
          users[userId].role = "business" =>
              /\ users'[userId].licenseStatus = users[userId].licenseStatus
              /\ users'[userId].lmkRegistrationNumber = users[userId].lmkRegistrationNumber]_vars

(* C31: the completion callback of a request changes only transactions the *)
(* request itself moved from pending to processing, those counted in its    *)
(* processedTransactions; every other transaction, the requested ones that  *)
(* were left out of the batch included, is as it was.                       *)
C31_CallbackTouchesOwnBatchOnly ==
    [][\A r \in DOMAIN requests :
          PaymentComplete(r) =>
              \A id \in TxIds :
                  id \notin requests[r].found => transactions'[id] = transactions[id]]_vars

(* the times of the admitted requests of key among the first n handled     *)
(* ones that lie after the instant `after`, in order                        *)
AdmittedTimes(key, n, after) ==
    LET kept == SelectSeq(SubSeq(handled, 1, n),
                          LAMBDA h : h.key = key /\ h.admitted /\ h.time > after)
    IN  [i \in 1..Len(kept) |-> kept[i].time]

(* C32: for every key the admitted requests with a time in                  *)
(* (now - windowMs, now] are at most maxRequests; a request is admitted     *)
(* exactly when fewer than maxRequests admitted requests of its own key lie *)
(* in its window, whatever was rejected and whatever other keys did; the    *)
(* limiter keeps for a key the admitted requests of the window and no       *)
(* rejected one.                                                            *)
C32_AtMostMaxRequestsPerWindow ==
    /\ \A key \in LimiterKeys :
           /\ Len(AdmittedTimes(key, Len(handled), now - limiter.windowMs)) <= limiter.maxRequests
           /\ SelectSeq(limiter.times[key], LAMBDA time : time > now - limiter.windowMs)
                  = AdmittedTimes(key, Len(handled), now - limiter.windowMs)
    /\ \A i \in DOMAIN handled :
           handled[i].admitted <=>
               Len(AdmittedTimes(handled[i].key, i - 1, handled[i].time - limiter.windowMs))
                   < limiter.maxRequests

(* a key was rejected and admitted again later, another key having been     *)
(* admitted in between                                                      *)
C32_Witness ==
    \E i \in DOMAIN handled, j \in DOMAIN handled, k \in DOMAIN handled :
        /\ i < j /\ j < k
        /\ handled[i].key = handled[k].key /\ handled[j].key # handled[i].key
        /\ ~handled[i].admitted /\ handled[j].admitted /\ handled[k].admitted

(* C33: after every upload, artist update, approval and rejection, every   *)
(* published work has complianceStatus approved; an upload adds a work in   *)
(* review, an approval sets published and approved together, a rejection    *)
(* archived and rejected together, an artist update leaves status and       *)
(* complianceStatus as they were; a work that is in review or rejected is   *)
(* not available to a business of any type.                                 *)
C33_PublishedIsApproved ==
    [][/\ \A id \in DOMAIN works' :
              /\ works'[id].status = "published" => works'[id].complianceStatus = "approved"
              /\ (works'[id].status = "review" \/ works'[id].complianceStatus = "rejected")
                     => \A businessType \in BusinessTypeEnum :
                            ~isAvailableForBusiness(works'[id], businessType)
       /\ Len(works') > Len(works) => works'[Len(works')].status = "review"
       /\ (response'.route = "approve" /\ response'.status = 200)
              => /\ works'[response'.body.id].status = "published"
                 /\ works'[response'.body.id].complianceStatus = "approved"
       /\ (response'.route = "reject" /\ response'.status = 200)
              => /\ works'[response'.body.id].status = "archived"
                 /\ works'[response'.body.id].complianceStatus = "rejected"
       /\ (response'.route = "music-update" /\ response'.status = 200)
              => \A id \in DOMAIN works :
                     /\ works'[id].status = works[id].status
                     /\ works'[id].complianceStatus = works[id].complianceStatus]_vars

(* the artist of a rejected work has sent an update that names the status   *)
(* published and a new title: the title is the new one, the work is still   *)
(* archived; another work is published                                      *)
C33_Witness ==
    /\ response.route = "music-update" /\ response.status = 200
    /\ works[response.body.id].status = "archived"
    /\ works[response.body.id].complianceStatus = "rejected"
    /\ works[response.body.id].title = "t2"
    /\ \E id \in DOMAIN works : works[id].status = "published"

(* C34: whatever register and profile-update requests are made by callers  *)
(* who are not admins, no user they create or update has a valid licence    *)
(* (role business with licenseStatus active) or the role admin; a business  *)
(* account that was just registered has licenseStatus pending.              *)
C34_NoSelfGrantedLicenceOrAdmin ==
    /\ \A id \in Outsiders :
           /\ ~hasValidLicense(users[id])
           /\ requireBusinessLicense(users[id]) # "next"
           /\ users[id].role # "admin"
    /\ (response.route = "register" /\ response.status = 201
           /\ response.body.user.role = "business")
          => response.body.user.licenseStatus = "pending"

=============================================================================
